---- MODULE Spec2Model ----
(***************************************************************************)
(* Model of pybamm.Experiment (src/pybamm/experiment/experiment.py).       *)
(*                                                                         *)
(* Python strings are sequences of one-character strings, so that split,   *)
(* endswith, join and slicing are computed as Python computes them.        *)
(* Step objects live in a heap (a sequence of records); a reference to a   *)
(* Step is its index in the heap, so object identity is index equality.    *)
(***************************************************************************)
EXTENDS Integers, Sequences, FiniteSets, TLC

VARIABLES heap, experiments, last

vars == <<heap, experiments, last>>

\* A Python value that may be None is a sequence of at most one element
None == <<>>
Some(v) == <<v>>

\* ------------------------------------------------------------------------
\* Bounds of the model
\* ------------------------------------------------------------------------
MaxTermLen == 2
MaxPrebuilt == 1
MaxExperiments == 2
MaxEntries == 2
MaxCycleLen == 2

\* ------------------------------------------------------------------------
\* Python str operations on sequences of characters
\* ------------------------------------------------------------------------
Last(s) == s[Len(s)]

\* s.endswith(suf)
EndsWith(s, suf) ==
    /\ Len(suf) <= Len(s)
    /\ SubSeq(s, Len(s) - Len(suf) + 1, Len(s)) = suf

\* index of the first occurrence of sub in s, 0 when there is none
Find(s, sub) ==
    LET hits == {i \in 1..(Len(s) - Len(sub) + 1) :
                     SubSeq(s, i, i + Len(sub) - 1) = sub}
    IN IF hits = {} THEN 0 ELSE CHOOSE i \in hits : \A j \in hits : i <= j

\* sub in s
Contains(s, sub) == Find(s, sub) # 0

\* s.split(sep): the list of parts of s between the occurrences of sep
RECURSIVE SplitOn(_, _)
SplitOn(s, sep) ==
    LET i == Find(s, sep)
    IN IF i = 0 THEN <<s>>
       ELSE <<SubSeq(s, 1, i - 1)>>
                \o SplitOn(SubSeq(s, i + Len(sep), Len(s)), sep)

\* s.split(): the maximal runs of non-blank characters
RECURSIVE SplitWs(_)
SplitWs(s) ==
    IF s = <<>> THEN <<>>
    ELSE IF Head(s) = " " THEN SplitWs(Tail(s))
    ELSE LET blanks == {i \in 1..Len(s) : s[i] = " "}
             stop == IF blanks = {} THEN Len(s) + 1
                     ELSE CHOOSE i \in blanks : \A j \in blanks : i <= j
         IN <<SubSeq(s, 1, stop - 1)>> \o SplitWs(SubSeq(s, stop, Len(s)))

\* "".join(parts)
RECURSIVE Join(_)
Join(parts) == IF parts = <<>> THEN <<>> ELSE Head(parts) \o Join(Tail(parts))

\* s.strip()
RECURSIVE Strip(_)
Strip(s) ==
    IF s = <<>> THEN s
    ELSE IF Head(s) = " " THEN Strip(Tail(s))
    ELSE IF Last(s) = " " THEN Strip(SubSeq(s, 1, Len(s) - 1))
    ELSE s

Digits == {"0", "1", "2", "3", "4", "5", "6", "7", "8", "9"}

DigitVal(c) ==
    CASE c = "0" -> 0 [] c = "1" -> 1 [] c = "2" -> 2 [] c = "3" -> 3
      [] c = "4" -> 4 [] c = "5" -> 5 [] c = "6" -> 6 [] c = "7" -> 7
      [] c = "8" -> 8 [] c = "9" -> 9

RECURSIVE DigitsVal(_)
DigitsVal(s) ==
    IF s = <<>> THEN 0
    ELSE 10 * DigitsVal(SubSeq(s, 1, Len(s) - 1)) + DigitVal(Last(s))

RECURSIVE DropTrailingZeros(_)
DropTrailingZeros(s) ==
    IF s # <<>> /\ Last(s) = "0"
    THEN DropTrailingZeros(SubSeq(s, 1, Len(s) - 1)) ELSE s

\* the value n / 10^d of the digits ip before and fp after the point, kept in
\* lowest decimal form, so float("4.0") = float("4")
FloatParts(ip, fp) ==
    IF /\ \A i \in 1..Len(ip) : ip[i] \in Digits
       /\ \A i \in 1..Len(fp) : fp[i] \in Digits
       /\ Len(ip) + Len(fp) > 0
    THEN [ok |-> TRUE, n |-> DigitsVal(ip \o DropTrailingZeros(fp)),
          d |-> Len(DropTrailingZeros(fp))]
    ELSE [ok |-> FALSE, n |-> 0, d |-> 0]

FloatAt(t, dot) ==
    FloatParts(IF dot = 0 THEN t ELSE SubSeq(t, 1, dot - 1),
               IF dot = 0 THEN <<>> ELSE SubSeq(t, dot + 1, Len(t)))

\* float(s) for unsigned decimal literals: surrounding blanks are ignored,
\* at most one point, at least one digit
Float(s) == FloatAt(Strip(s), Find(Strip(s), <<".">>))

\* ------------------------------------------------------------------------
\* Experiment.read_termination
\* ------------------------------------------------------------------------
Capacity == <<"c", "a", "p", "a", "c", "i", "t", "y">>

NoError == "none"
CapacityFormatError == "ValueError: Capacity termination must be given in the form '80%', '4Ah', or '4A.h'"
OnlyCapacityOrVoltageError == "ValueError: Only capacity or voltage can be provided as a termination reason"
FloatError == "ValueError: could not convert string to float"
IndexError == "IndexError: list index out of range"

EmptyDict == [k \in {} |-> None]

\* termination_dict[k] = v
DictSet(d, k, v) == (k :> v) @@ d

\* Python arguments of read_termination: None, a str or a list of str
TermNone == [kind |-> "None", s |-> <<>>, l |-> <<>>]
TermStr(s) == [kind |-> "str", s |-> s, l |-> <<>>]
TermList(l) == [kind |-> "list", s |-> <<>>, l |-> l]

\* line 130: str.replace returns a new string and the code drops it
ReplaceDiscarded(end_discharge) == end_discharge

\* termination_dict[key] = (float(text), unit), or the error float raises
Record(termination_dict, key, f, unit) ==
    IF f.ok
    THEN [raised |-> NoError,
          value |-> DictSet(termination_dict, key, <<f.n, f.d, unit>>)]
    ELSE [raised |-> FloatError, value |-> termination_dict]

\* lines 131-141
ReadCapacity(end_discharge, termination_dict) ==
    IF EndsWith(end_discharge, <<"%">>)
    THEN Record(termination_dict, "capacity",
                Float(SplitOn(end_discharge, <<"%">>)[1]), "%")
    ELSE IF EndsWith(end_discharge, <<"A", "h">>)
    THEN Record(termination_dict, "capacity",
                Float(SplitOn(end_discharge, <<"A", "h">>)[1]), "Ah")
    ELSE [raised |-> CapacityFormatError, value |-> termination_dict]

\* lines 128-149 on the tokens term_list of term
ReadTokens(term, term_list, termination_dict) ==
    IF term_list = <<>>
    THEN [raised |-> IndexError, value |-> termination_dict]
    ELSE IF Last(term_list) = Capacity
    THEN ReadCapacity(
             ReplaceDiscarded(Join(SubSeq(term_list, 1, Len(term_list) - 1))),
             termination_dict)
    ELSE IF EndsWith(term, <<"V">>)
    THEN Record(termination_dict, "voltage",
                Float(SplitOn(term, <<"V">>)[1]), "V")
    ELSE [raised |-> OnlyCapacityOrVoltageError, value |-> termination_dict]

\* one iteration of the loop over the termination list (lines 127-149)
ReadTerm(term, termination_dict) ==
    ReadTokens(term, SplitWs(term), termination_dict)

RECURSIVE ReadTermLoop(_, _)

\* ReadTermNext returning the entries read so far instead of raising
ReadTermNextPartial(terms, r) ==
    IF r.raised # NoError THEN [raised |-> NoError, value |-> r.value]
    ELSE ReadTermLoop(Tail(terms), r.value)

\* the loop stops at the first entry that raises
ReadTermNext(terms, r) ==
    IF r.raised # NoError THEN r ELSE ReadTermLoop(Tail(terms), r.value)

ReadTermLoop(terms, termination_dict) ==
    IF terms = <<>> THEN [raised |-> NoError, value |-> termination_dict]
    ELSE ReadTermNext(terms, ReadTerm(Head(terms), termination_dict))

read_termination(termination) ==
    IF termination.kind = "None" THEN [raised |-> NoError, value |-> EmptyDict]
    ELSE LET l == IF termination.kind = "str"
                  THEN <<termination.s>> ELSE termination.l
         IN ReadTermLoop(l, EmptyDict)

\* ------------------------------------------------------------------------
\* Instructions, steps and the heap of Step objects
\* ------------------------------------------------------------------------
\* a raw instruction: a str or a reference to a pre-built Step object
Str(s) == [kind |-> "str", s |-> s, id |-> 0]
StepRef(i) == [kind |-> "step", s |-> <<>>, id |-> i]

\* an element of operating_conditions: one instruction or a tuple of them
Single(r) == [isTuple |-> FALSE, val |-> r, elems |-> <<>>]
Tuple(rs) == [isTuple |-> TRUE, val |-> Str(<<>>), elems |-> rs]

GrammarError == "ValueError: instruction not recognised"
TypeError == "TypeError: argument of type '_Step' is not iterable"
UnpackError == "ValueError: too many values to unpack (expected 2)"
CccvDeprecatedError == "ValueError: cccv_handling has been deprecated"
DriveCyclesDeprecatedError == "ValueError: drive_cycles should now be passed as an experiment step object"

\* The instruction language of the model.  An instruction text is an
\* operation letter ("R" rest, "C" charge, "H" hold) followed by optional
\* modifiers: "p" states the step's own period (30 seconds) and "t" its own
\* temperature (35 oC); a bracketed tag list may follow after " [".  Any
\* other text is rejected.  Tags are not part of the Step.
Operations == {"R", "C", "H"}
StepPeriodSeconds == 30
StepTemperatureCelsius == 35

\* _convert_temperature_to_kelvin, in hundredths of a kelvin
_convert_temperature_to_kelvin(temperature) ==
    IF temperature = None THEN None
    ELSE Some(temperature[1] * 100 + 27315)

\* _convert_time_to_seconds on the period texts of the model
_convert_time_to_seconds(period) ==
    CASE period = None -> None
      [] period = Some("30 seconds") -> Some(30)
      [] period = Some("1 minute") -> Some(60)
      [] period = Some("2 minutes") -> Some(120)

\* a new _Step object: hash_args is fixed at creation and decides __eq__ and
\* __hash__; origin tells a Step built by the caller from one parsed by the
\* constructor; pW and tW count the assignments of a value to period and
\* temperature over the life of the object
NewStep(op, period, temperature, origin) ==
    [hash_args |-> <<op, period, temperature>>,
     origin |-> origin,
     period |-> period,
     temperature |-> temperature,
     pW |-> IF period = None THEN 0 ELSE 1,
     tW |-> IF temperature = None THEN 0 ELSE 1]

\* the Step of an instruction text without its tag list
StepOfBody(body) ==
    IF /\ body # <<>>
       /\ Head(body) \in Operations
       /\ Tail(body) \in {<<>>, <<"p">>, <<"t">>, <<"p", "t">>}
    THEN [ok |-> TRUE,
          step |-> NewStep(Head(body),
                           IF Contains(body, <<"p">>)
                           THEN Some(StepPeriodSeconds) ELSE None,
                           IF Contains(body, <<"t">>)
                           THEN _convert_temperature_to_kelvin(
                                    Some(StepTemperatureCelsius))
                           ELSE None,
                           "string")]
    ELSE [ok |-> FALSE, step |-> NewStep("R", None, None, "string")]

\* pybamm.experiment.string(text)
string(text) ==
    StepOfBody(IF Contains(text, <<" ", "[">>)
               THEN SplitOn(text, <<" ", "[">>)[1] ELSE text)

\* _Step.__eq__ on two objects of the heap h
StepEq(h, a, b) == h[a].hash_args = h[b].hash_args

\* == on raw instructions: str by value, Step by __eq__, never across kinds
RawEq(h, a, b) ==
    IF a.kind = "str" /\ b.kind = "str" THEN a.s = b.s
    ELSE IF a.kind = "step" /\ b.kind = "step" THEN StepEq(h, a.id, b.id)
    ELSE FALSE

\* ------------------------------------------------------------------------
\* Experiment.__init__
\* ------------------------------------------------------------------------
\* CheckDeprecated without the check of lines 51-55
CheckDeprecatedCccvOnly(cccv_handling, drive_cycles) ==
    IF cccv_handling # None THEN CccvDeprecatedError ELSE NoError

\* lines 45-55
CheckDeprecated(cccv_handling, drive_cycles) ==
    IF cccv_handling # None THEN CccvDeprecatedError
    ELSE IF drive_cycles # None THEN DriveCyclesDeprecatedError
    ELSE NoError

\* Wrap without the conversion of line 68
WrapNever(cycle) == cycle.elems

\* lines 67-68
Wrap(cycle) == IF ~cycle.isTuple THEN <<cycle.val>> ELSE cycle.elems

\* lines 64-69
Cycles(operating_conditions) ==
    [i \in 1..Len(operating_conditions) |-> Wrap(operating_conditions[i])]

\* line 72
CycleLengths(operating_conditions_cycles) ==
    [i \in 1..Len(operating_conditions_cycles) |->
        Len(operating_conditions_cycles[i])]

\* lines 74-76
RECURSIVE Flatten(_)
Flatten(operating_conditions_cycles) ==
    IF operating_conditions_cycles = <<>> THEN <<>>
    ELSE Head(operating_conditions_cycles)
             \o Flatten(Tail(operating_conditions_cycles))

\* line 80: set(...) keeps the first of several equal elements
RECURSIVE UniqueUnprocessed(_, _, _)
UniqueUnprocessed(h, flat, kept) ==
    IF flat = <<>> THEN kept
    ELSE IF \E i \in 1..Len(kept) : RawEq(h, kept[i], Head(flat))
    THEN UniqueUnprocessed(h, Tail(flat), kept)
    ELSE UniqueUnprocessed(h, Tail(flat), Append(kept, Head(flat)))

\* lines 81-86: processed_steps as a sequence of <<key, Step reference>>
RECURSIVE ProcessLoop(_, _, _)

\* lines 83-84: the key is a str, p is what pybamm.experiment.string gave
ProcessStr(keys, h, processed_steps, p) ==
    IF ~p.ok
    THEN [raised |-> GrammarError, heap |-> h,
          processed_steps |-> processed_steps]
    ELSE ProcessLoop(Tail(keys), Append(h, p.step),
                     Append(processed_steps, <<Head(keys), Len(h) + 1>>))

ProcessLoop(keys, h, processed_steps) ==
    IF keys = <<>>
    THEN [raised |-> NoError, heap |-> h, processed_steps |-> processed_steps]
    ELSE IF Head(keys).kind = "str"
    THEN ProcessStr(keys, h, processed_steps, string(Head(keys).s))
    ELSE ProcessLoop(Tail(keys), h,
                     Append(processed_steps, <<Head(keys), Head(keys).id>>))

\* processed_steps[step]
DictGet(h, processed_steps, step) ==
    LET i == CHOOSE i \in 1..Len(processed_steps) :
                 RawEq(h, processed_steps[i][1], step)
    IN processed_steps[i][2]

\* lines 88-93: r holds processed_steps and the heap after lines 80-86
Expand(flat, r) ==
    IF r.raised # NoError
    THEN [raised |-> r.raised, heap |-> r.heap, steps |-> <<>>, values |-> {}]
    ELSE [raised |-> NoError, heap |-> r.heap,
          steps |-> [i \in 1..Len(flat) |->
                        DictGet(r.heap, r.processed_steps, flat[i])],
          values |-> {r.processed_steps[i][2] :
                         i \in 1..Len(r.processed_steps)}]

\* Expand taking the Step of position i from the i-th conversion
ExpandEach(flat, r) ==
    IF r.raised # NoError
    THEN [raised |-> r.raised, heap |-> r.heap, steps |-> <<>>, values |-> {}]
    ELSE [raised |-> NoError, heap |-> r.heap,
          steps |-> [i \in 1..Len(flat) |-> r.processed_steps[i][2]],
          values |-> {r.processed_steps[i][2] :
                         i \in 1..Len(r.processed_steps)}]

\* Process converting every occurrence of an instruction on its own
ProcessEach(h, flat) ==
    ExpandEach(flat, ProcessLoop(flat, h, <<>>))

\* lines 74-93: the Step of every position and the values of processed_steps
Process(h, flat) ==
    Expand(flat, ProcessLoop(UniqueUnprocessed(h, flat, <<>>), h, <<>>))

\* line 90: set(processed_steps.values()) keeps one object of every class of
\* equal Steps; which one depends on the iteration order of a set of str
UniqueSteps(h, values) ==
    {U \in SUBSET values :
        \A v \in values : Cardinality({u \in U : StepEq(h, u, v)}) = 1}

\* InjectOne without the tests of lines 102 and 104
InjectOneAlways(step, period, temperature) ==
    [step EXCEPT !.period = period,
                 !.pW = IF period = None THEN @ ELSE @ + 1,
                 !.temperature = temperature,
                 !.tW = IF temperature = None THEN @ ELSE @ + 1]

\* lines 102-105 for one step
InjectOne(step, period, temperature) ==
    LET s1 == IF step.period = None
              THEN [step EXCEPT !.period = period,
                                !.pW = IF period = None THEN @ ELSE @ + 1]
              ELSE step
    IN IF s1.temperature = None
       THEN [s1 EXCEPT !.temperature = temperature,
                       !.tW = IF temperature = None THEN @ ELSE @ + 1]
       ELSE s1

\* lines 101-105
Inject(h, unique_steps, period, temperature) ==
    [i \in 1..Len(h) |->
        IF i \in unique_steps THEN InjectOne(h[i], period, temperature)
        ELSE h[i]]

NoExperiment == [args |-> <<>>]

Raised(error, h) == [raised |-> error, heap |-> h, self |-> NoExperiment]

\* lines 95-105, after the steps were processed (p) and with the value t of
\* read_termination(termination)
Finish(args, operating_conditions_cycles, p, t) ==
    IF t.raised # NoError THEN {Raised(t.raised, p.heap)}
    ELSE {[raised |-> NoError,
           heap |-> Inject(p.heap, U, _convert_time_to_seconds(args[2]),
                           _convert_temperature_to_kelvin(args[3])),
           self |-> [args |-> args,
                     operating_conditions_cycles |->
                         operating_conditions_cycles,
                     cycle_lengths |->
                         CycleLengths(operating_conditions_cycles),
                     unique_steps |-> U,
                     operating_conditions_steps |-> p.steps,
                     termination_string |-> args[4],
                     termination |-> t.value,
                     period |-> _convert_time_to_seconds(args[2]),
                     temperature |->
                         _convert_temperature_to_kelvin(args[3])]] :
          U \in UniqueSteps(p.heap, p.values)}

\* lines 56-105, p being the outcome of lines 74-93
Build(args, operating_conditions_cycles, p) ==
    IF p.raised # NoError THEN {Raised(p.raised, p.heap)}
    ELSE Finish(args, operating_conditions_cycles, p,
                read_termination(args[4]))

\* Experiment.__init__ on the heap h: the set of possible outcomes, each the
\* error raised (if any), the heap at that point and the object built
ExperimentInit(h, operating_conditions, period, temperature, termination, drive_cycles, cccv_handling) ==
    IF CheckDeprecated(cccv_handling, drive_cycles) # NoError
    THEN {Raised(CheckDeprecated(cccv_handling, drive_cycles), h)}
    ELSE Build(<<operating_conditions, period, temperature, termination>>,
               Cycles(operating_conditions),
               Process(h, Flatten(Cycles(operating_conditions))))

\* ------------------------------------------------------------------------
\* Experiment.search_tag
\* ------------------------------------------------------------------------
\* lines 170-172 on the parts of cond.split(" ["): unpacking into two names
\* needs exactly two parts
MatchParts(parts, tag) ==
    IF Len(parts) # 2 THEN UnpackError
    ELSE IF \E k \in 1..Len(SplitOn(SubSeq(parts[2], 1, Len(parts[2]) - 1),
                                     <<",">>)) :
               SplitOn(SubSeq(parts[2], 1, Len(parts[2]) - 1), <<",">>)[k]
                   = tag
    THEN "match" ELSE "no match"

\* lines 169-172 for one element of a cycle; the operator in of line 169
\* raises for an object that is no container
MatchCond(cond, tag) ==
    IF cond.kind # "str" THEN TypeError
    ELSE IF Contains(cond.s, <<" ", "[">>)
    THEN MatchParts(SplitOn(cond.s, <<" ", "[">>), tag)
    ELSE "no match"

RECURSIVE ScanCycle(_, _)

\* line 174: break at the first match; an error ends the whole call
ScanNext(cycle, tag, m) ==
    IF m = "no match" THEN ScanCycle(Tail(cycle), tag) ELSE m

\* lines 168-174
ScanCycle(cycle, tag) ==
    IF cycle = <<>> THEN "no match"
    ELSE ScanNext(cycle, tag, MatchCond(Head(cycle), tag))

RECURSIVE ScanCycles(_, _, _, _)

ScanCyclesNext(operating_conditions_cycles, tag, i, cycles, m) ==
    IF m = "match"
    THEN ScanCycles(operating_conditions_cycles, tag, i + 1,
                    Append(cycles, i))
    ELSE IF m = "no match"
    THEN ScanCycles(operating_conditions_cycles, tag, i + 1, cycles)
    ELSE [raised |-> m, value |-> <<>>]

\* lines 167-176; enumerate counts the cycles from 0
ScanCycles(operating_conditions_cycles, tag, i, cycles) ==
    IF i >= Len(operating_conditions_cycles)
    THEN [raised |-> NoError, value |-> cycles]
    ELSE ScanCyclesNext(operating_conditions_cycles, tag, i, cycles,
                        ScanCycle(operating_conditions_cycles[i + 1], tag))

search_tag(self, tag) ==
    ScanCycles(self.operating_conditions_cycles, tag, 0, <<>>)

\* ------------------------------------------------------------------------
\* Inputs
\* ------------------------------------------------------------------------
SeqsUpTo(S, n) == UNION {[1..k -> S] : k \in 0..n}

I_R == <<"R">>
I_Ra == <<"R", " ", "[", "a", "]">>
I_Rp == <<"R", "p">>
I_Cb == <<"C", " ", "[", "b", "]">>
I_Hab == <<"H", " ", "[", "a", ",", "b", "]">>
I_X == <<"X">>

\* texts the instruction grammar rejects
RejectedInstructions == {I_X}

T_80pc == <<"8", "0", "%", " ">> \o Capacity
T_4Ah == <<"4", "A", "h", " ">> \o Capacity
T_4_Ah == <<"4", " ", "A", "h", " ">> \o Capacity
T_4AdotH == <<"4", "A", ".", "h", " ">> \o Capacity
T_4_AdotH == <<"4", " ", "A", ".", "h", " ">> \o Capacity
T_40Ah == <<"4", ".", "0", "A", "h", " ">> \o Capacity
T_80 == <<"8", "0", " ">> \o Capacity
T_25V == <<"2", ".", "5", " ", "V">>
T_abc == <<"a", "b", "c">>
T_empty == <<>>

\* termination texts whose capacity magnitude ends in A.h
AdotHTerms == {T_4AdotH, T_4_AdotH}
\* termination texts that name neither a voltage nor a capacity in one of
\* the forms '80%', '4Ah', '4A.h'
MalformedTerms == {T_80, T_abc, T_empty}
WellFormedTerms == {T_80pc, T_4Ah, T_4_Ah, T_40Ah, T_25V} \cup AdotHTerms
TermTexts == WellFormedTerms \cup MalformedTerms

TermInputs ==
    {TermNone} \cup {TermStr(s) : s \in TermTexts}
               \cup {TermList(l) : l \in SeqsUpTo(TermTexts, MaxTermLen)}

TermEntries(termination) ==
    IF termination.kind = "None" THEN <<>>
    ELSE IF termination.kind = "str" THEN <<termination.s>>
    ELSE termination.l

\* references to the Step objects the caller built
Prebuilt(h) == {i \in 1..Len(h) : h[i].origin = "caller"}

\* operating conditions: a flat list of one or two instructions, or one
\* cycle of two instructions
CuratedConds(raws) ==
    {<<Single(r)>> : r \in raws}
      \cup {<<Single(r1), Single(r2)>> : r1 \in raws, r2 \in raws}
      \cup {<<Tuple(<<r1, r2>>)>> : r1 \in raws, r2 \in raws}

\* operating conditions of every shape within the bounds
ShapedConds(raws) ==
    SeqsUpTo({Single(r) : r \in raws}
                \cup {Tuple(rs) : rs \in SeqsUpTo(raws, MaxCycleLen)},
             MaxEntries)

\* ------------------------------------------------------------------------
\* State machine
\* ------------------------------------------------------------------------
Init ==
    /\ heap = <<>>
    /\ experiments = <<>>
    /\ last = [op |-> "init"]

\* the caller builds a Step object, e.g. pybamm.step.rest(period=...,
\* temperature=...)
MakeStep(period, temperature) ==
    /\ Cardinality(Prebuilt(heap)) < MaxPrebuilt
    /\ heap' = Append(heap,
                      NewStep("R", _convert_time_to_seconds(period),
                              _convert_temperature_to_kelvin(temperature),
                              "caller"))
    /\ last' = [op |-> "step"]
    /\ UNCHANGED experiments

\* the objects of h that the caller can still reach after a constructor
\* raised: the n objects that existed before the call
Release(h, n) == SubSeq(h, 1, n)

\* Experiment(operating_conditions, period, temperature, termination,
\*            drive_cycles, cccv_handling); src is the experiment copied, or 0
Construct(operating_conditions, period, temperature, termination, drive_cycles, cccv_handling, src) ==
    /\ Len(experiments) < MaxExperiments
    /\ \E r \in ExperimentInit(heap, operating_conditions, period,
                               temperature, termination, drive_cycles,
                               cccv_handling) :
          /\ heap' = IF r.raised = NoError THEN r.heap
                     ELSE Release(r.heap, Len(heap))
          /\ experiments' = IF r.raised = NoError
                            THEN Append(experiments, r.self)
                            ELSE experiments
          /\ last' = [op |-> "Experiment",
                      src |-> src,
                      raised |-> r.raised,
                      deprecated |-> (drive_cycles # None
                                        \/ cccv_handling # None),
                      rejected |->
                          (\E i \in 1..Len(operating_conditions) :
                             LET c == Wrap(operating_conditions[i])
                             IN \E j \in 1..Len(c) :
                                   /\ c[j].kind = "str"
                                   /\ c[j].s \in RejectedInstructions),
                      termination |-> termination,
                      malformed |->
                          (\E i \in 1..Len(TermEntries(termination)) :
                             TermEntries(termination)[i] \in MalformedTerms),
                      withPrebuilt |->
                          (\E i \in 1..Len(operating_conditions) :
                             LET c == Wrap(operating_conditions[i])
                             IN \E j \in 1..Len(c) : c[j].kind = "step")]

\* Experiment.copy (lines 110-111)
copy(i) ==
    LET args == experiments[i].args
    IN Construct(args[1], args[2], args[3], args[4], None, None, i)

Periods == {Some("1 minute"), Some("2 minutes")}
Temperatures == {None, Some(25)}
StepPeriods == {None, Some("30 seconds")}
StepTemperatures == {None, Some(StepTemperatureCelsius)}

MainRaws == {Str(I_R), Str(I_Ra)} \cup {StepRef(i) : i \in Prebuilt(heap)}

NewStepObject ==
    \E period \in StepPeriods, temperature \in StepTemperatures :
        MakeStep(period, temperature)

NewExperiment ==
    \E oc \in CuratedConds(MainRaws), period \in Periods,
       temperature \in Temperatures :
        Construct(oc, period, temperature, TermNone, None, None, 0)

CopyExperiment == \E i \in 1..Len(experiments) : copy(i)

Next == NewStepObject \/ NewExperiment \/ CopyExperiment

Spec == Init /\ [][Next]_vars

\* ------------------------------------------------------------------------
\* One construction, with every kind of argument
\* ------------------------------------------------------------------------
OneRaws ==
    {Str(I_R), Str(I_Ra), Str(I_Rp), Str(I_X)}
        \cup {StepRef(i) : i \in Prebuilt(heap)}

OneTerms ==
    {TermNone, TermStr(T_25V), TermList(<<T_80pc, T_25V>>),
     TermList(<<T_25V, T_abc>>), TermStr(T_80)}

\* the caller calls the constructor once after building its Step objects
FirstExperiment ==
    /\ experiments = <<>>
    /\ last.op # "Experiment"
    /\ \E oc \in CuratedConds(OneRaws),
          period \in Periods,
          temperature \in Temperatures,
          termination \in OneTerms,
          drive_cycles \in {None, Some("drive cycle")},
          cccv_handling \in {None, Some("ode")} :
          Construct(oc, period, temperature, termination,
                    drive_cycles, cccv_handling, 0)

NextOne == NewStepObject \/ FirstExperiment

SpecOne == Init /\ [][NextOne]_vars

\* ------------------------------------------------------------------------
\* One construction from operating conditions of every shape
\* ------------------------------------------------------------------------
ShapedExperiment ==
    /\ experiments = <<>>
    /\ \E oc \in ShapedConds({Str(I_R), Str(I_Ra), Str(I_Cb)}) :
          Construct(oc, Some("1 minute"), None, TermNone, None, None, 0)

NextShape == ShapedExperiment

SpecShape == Init /\ [][NextShape]_vars

\* ------------------------------------------------------------------------
\* search_tag on an experiment
\* ------------------------------------------------------------------------
Tags == {<<"a">>, <<"b">>}

\* the tags each instruction text of the model carries in its bracketed list
TagsOf(text) ==
    CASE text = I_Ra -> {<<"a">>}
      [] text = I_Cb -> {<<"b">>}
      [] text = I_Hab -> {<<"a">>, <<"b">>}
      [] OTHER -> {}

TaggedExperiment ==
    /\ experiments = <<>>
    /\ \E oc \in ShapedConds({Str(I_R), Str(I_Ra), Str(I_Cb), Str(I_Hab)}
                               \cup {StepRef(i) : i \in Prebuilt(heap)}) :
          Construct(oc, Some("1 minute"), None, TermNone, None, None, 0)

SearchTag ==
    \E i \in 1..Len(experiments), tag \in Tags :
        /\ last' = [op |-> "search_tag", self |-> i, tag |-> tag,
                    result |-> search_tag(experiments[i], tag)]
        /\ UNCHANGED <<heap, experiments>>

NextTag == NewStepObject \/ TaggedExperiment \/ SearchTag

SpecTag == Init /\ [][NextTag]_vars

\* ------------------------------------------------------------------------
\* read_termination on its own
\* ------------------------------------------------------------------------
ReadTermination ==
    \E termination \in TermInputs :
        /\ last' = [op |-> "read_termination", termination |-> termination,
                    result |-> read_termination(termination)]
        /\ UNCHANGED <<heap, experiments>>

NextTerm == ReadTermination

SpecTerm == Init /\ [][NextTerm]_vars

\* ------------------------------------------------------------------------
\* Properties
\* ------------------------------------------------------------------------
Range(s) == {s[i] : i \in 1..Len(s)}

RECURSIVE Ascending(_)
Ascending(S) ==
    IF S = {} THEN <<>>
    ELSE LET m == CHOOSE x \in S : \A y \in S : x <= y
         IN <<m>> \o Ascending(S \ {m})

FlatOf(e) == Flatten(e.operating_conditions_cycles)

\* C1: in every experiment, two positions of the flattened operating
\* conditions that hold the same instruction string refer to the same Step
\* object, so both show the same period and temperature.
C1_DedupIdentity ==
    \A n \in 1..Len(experiments) :
        LET e == experiments[n]
        IN /\ Len(e.operating_conditions_steps) = Len(FlatOf(e))
           /\ \A i, j \in 1..Len(FlatOf(e)) :
                 (FlatOf(e)[i].kind = "str" /\ FlatOf(e)[j] = FlatOf(e)[i])
                     => e.operating_conditions_steps[i]
                            = e.operating_conditions_steps[j]

\* an experiment built from the same string in two cycles, whose one Step
\* received the experiment's period
C1_Witness ==
    \E n \in 1..Len(experiments) :
        LET e == experiments[n]
        IN /\ e.operating_conditions_cycles = <<<<Str(I_R)>>, <<Str(I_R)>>>>
           /\ e.operating_conditions_steps[1] = e.operating_conditions_steps[2]
           /\ heap[e.operating_conditions_steps[2]].period = Some(60)
           /\ heap[e.operating_conditions_steps[2]].hash_args[2] = None

\* C2 as claimed: right after E.copy() returned, the copy shares no Step
\* object with E.
C2_CopyIsolation ==
    (last.op = "Experiment" /\ last.src # 0 /\ last.raised = NoError)
        => Range(experiments[Len(experiments)].operating_conditions_steps)
             \cap Range(experiments[last.src].operating_conditions_steps)
               = {}

C4_DefaultInheritance ==
    \A n \in 1..Len(experiments) :
        LET e == experiments[n]
        IN \A s \in e.unique_steps :
              /\ heap[s].period = IF heap[s].hash_args[2] # None
                                  THEN heap[s].hash_args[2] ELSE e.period
              /\ heap[s].temperature = IF heap[s].hash_args[3] # None
                                       THEN heap[s].hash_args[3]
                                       ELSE e.temperature

\* the cycles search_tag(tag) is to return: those with an instruction
\* string whose tag list contains tag, counted from 0, ascending
TaggedCycles(e, tag) ==
    Ascending({i - 1 : i \in {k \in 1..Len(e.operating_conditions_cycles) :
        \E j \in 1..Len(e.operating_conditions_cycles[k]) :
            /\ e.operating_conditions_cycles[k][j].kind = "str"
            /\ tag \in TagsOf(e.operating_conditions_cycles[k][j].s)}})

\* C5 as claimed: search_tag never raises and returns exactly the cycles
\* that hold an instruction string tagged with tag; a pre-built step object
\* in a cycle contributes no match and no error.
C5_SearchTag ==
    last.op = "search_tag"
        => /\ last.result.raised = NoError
           /\ last.result.value = TaggedCycles(experiments[last.self],
                                               last.tag)

\* C6: a constructor call with a deprecated argument, an instruction the
\* grammar rejects or a malformed termination entry (at any position of the
\* list) raises, returns no Experiment and leaves every Step object and
\* every Experiment of the caller as it was.
C6_AllOrNothing ==
    [][(last'.op = "Experiment"
          /\ (last'.deprecated \/ last'.rejected \/ last'.malformed))
         => (/\ last'.raised # NoError
             /\ heap' = heap
             /\ experiments' = experiments)]_vars

\* a call whose termination list has a malformed entry after a well-formed
\* one has raised, and the caller's pre-built step, which was among the
\* operating conditions, has neither period nor temperature
C6_Witness ==
    /\ last.op = "Experiment"
    /\ last.termination = TermList(<<T_25V, T_abc>>)
    /\ ~last.deprecated /\ ~last.rejected /\ last.withPrebuilt
    /\ last.raised = OnlyCapacityOrVoltageError
    /\ experiments = <<>>
    /\ \E s \in Prebuilt(heap) :
          heap[s].period = None /\ heap[s].temperature = None

\* C7: a constructor call with drive_cycles or cccv_handling other than
\* None raises the deprecation error whatever the other arguments are, and
\* no step and no experiment has changed.
C7_DeprecatedArguments ==
    [][(last'.op = "Experiment" /\ last'.deprecated)
         => (/\ last'.raised \in {CccvDeprecatedError,
                                  DriveCyclesDeprecatedError}
             /\ heap' = heap
             /\ experiments' = experiments)]_vars

\* a call with drive_cycles alone, a rejected instruction, a malformed
\* termination and a pre-built step has raised the drive_cycles error
C7_Witness ==
    /\ last.op = "Experiment"
    /\ last.deprecated /\ last.rejected /\ last.malformed
    /\ last.withPrebuilt
    /\ last.raised = DriveCyclesDeprecatedError
    /\ \E s \in Prebuilt(heap) : heap[s].period = None

\* C8 as claimed: every cycle is a non-empty group and cycle_lengths gives
\* the length of every cycle.
C8_NonEmptyCycles ==
    \A n \in 1..Len(experiments) :
        LET e == experiments[n]
        IN \A i \in 1..Len(e.operating_conditions_cycles) :
              /\ Len(e.operating_conditions_cycles[i]) >= 1
              /\ e.cycle_lengths[i] = Len(e.operating_conditions_cycles[i])

\* C8 as amended: every top-level entry becomes one cycle at the same
\* position, an instruction as a one-element group and a tuple as itself;
\* cycle_lengths[i] is the length of cycle i; a cycle is empty only when
\* its entry is the empty tuple.
C8_ShapeNormalization ==
    \A n \in 1..Len(experiments) :
        LET e == experiments[n]
            oc == e.args[1]
        IN /\ Len(e.operating_conditions_cycles) = Len(oc)
           /\ Len(e.cycle_lengths) = Len(oc)
           /\ \A i \in 1..Len(oc) :
                 /\ e.cycle_lengths[i] = Len(e.operating_conditions_cycles[i])
                 /\ oc[i].isTuple
                        => e.operating_conditions_cycles[i] = oc[i].elems
                 /\ ~oc[i].isTuple
                        => e.operating_conditions_cycles[i] = <<oc[i].val>>
                 /\ Len(e.operating_conditions_cycles[i]) = 0
                        => oc[i] = Tuple(<<>>)

\* an experiment built from a flat list of two instructions and one built
\* from an instruction and an empty tuple
C8_Witness ==
    \E n \in 1..Len(experiments) :
        LET e == experiments[n]
        IN /\ e.args[1] = <<Single(Str(I_R)), Tuple(<<>>)>>
           /\ e.cycle_lengths = <<1, 0>>
           /\ e.operating_conditions_cycles = <<<<Str(I_R)>>, <<>>>>

\* C9 as claimed: every Step of operating_conditions_steps is an element of
\* unique_steps (the objects default injection visited), no two elements of
\* unique_steps are equal, and operating_conditions_steps follows the
\* flattened cycles position by position.
C9_ReferentialIntegrity ==
    \A n \in 1..Len(experiments) :
        LET e == experiments[n]
        IN /\ Len(e.operating_conditions_steps) = Len(FlatOf(e))
           /\ \A i \in 1..Len(FlatOf(e)) :
                 /\ e.operating_conditions_steps[i] \in e.unique_steps
                 /\ heap[e.operating_conditions_steps[i]].hash_args
                      = IF FlatOf(e)[i].kind = "str"
                        THEN string(FlatOf(e)[i].s).step.hash_args
                        ELSE heap[FlatOf(e)[i].id].hash_args
           /\ \A a, b \in e.unique_steps :
                 a # b => ~StepEq(heap, a, b)

\* C10 as claimed: a termination text whose capacity magnitude is written
\* with A.h is read like the same text written with Ah.
C10_AdotHAccepted ==
    (/\ last.op = "read_termination"
     /\ last.termination.kind = "str"
     /\ last.termination.s \in AdotHTerms)
        => /\ last.result.raised = NoError
           /\ last.result = read_termination(TermStr(T_4Ah))

====
